---------------------------- MODULE Spec2Model ----------------------------
(***************************************************************************)
(* A model of airscan-xml.c: the XML reader (cursor over a libxml2 parse   *)
(* tree with namespace-prefix substitution), the XML writer (tree builder  *)
(* and serializer) and xml_format.                                         *)
(*                                                                         *)
(* C strings are sequences of one-character strings.  A pointer that may   *)
(* be NULL is either the heap index of its target (NULL is 0) or, for      *)
(* pointers to strings, an option: <<>> for NULL and <<v>> otherwise.      *)
(***************************************************************************)
EXTENDS Integers, Sequences, FiniteSets, TLC

(***************************************************************************)
(* Characters and strings                                                  *)
(***************************************************************************)
NULL == 0

None == <<>>
Some(v) == <<v>>
IsNone(o) == o = <<>>
Get(o) == o[1]

Range(s) == {s[i] : i \in 1..Len(s)}

\* F applied to the value of e: e is evaluated once, whatever the number of
\* places F uses it in
With(e, F(_)) == CHOOSE r \in {F(y) : y \in {e}} : TRUE

Digits == <<"0","1","2","3","4","5","6","7","8","9">>
DigitSet == Range(Digits)
DigitVal(c) == (CHOOSE i \in 1..10 : Digits[i] = c) - 1

Letters ==
  {"a","b","c","d","e","f","g","h","i","j","k","l","m","n","o","p","q","r",
   "s","t","u","v","w","x","y","z","A","B","C","D","E","F","G","H","I","J",
   "K","L","M","N","O","P","Q","R","S","T","U","V","W","X","Y","Z"}

\* isspace() / g_ascii_isspace() on the characters the model uses
Space == {" ", "\n", "\t", "\r"}

NameStart == Letters \cup {"_"}
NameChar == Letters \cup DigitSet \cup {"_", "-", "."}
QNameChar == NameChar \cup {":"}

\* the first index j >= i such that s[j] is not in S (Len(s)+1 if none)
RECURSIVE ScanWhile(_, _, _)
ScanWhile(s, i, S) ==
  IF i > Len(s) \/ s[i] \notin S THEN i
  ELSE ScanWhile(s, i + 1, S)

StartsWith(s, i, p) ==
  /\ i + Len(p) - 1 <= Len(s)
  /\ \A k \in 1..Len(p) : s[i + k - 1] = p[k]

\* the first index j >= i at which p occurs in s, 0 if there is none
RECURSIVE Find(_, _, _)
Find(s, i, p) ==
  IF i > Len(s) THEN 0
  ELSE IF StartsWith(s, i, p) THEN i
  ELSE Find(s, i + 1, p)

RECURSIVE Concat(_)
Concat(ss) == IF ss = <<>> THEN <<>> ELSE Head(ss) \o Concat(Tail(ss))

(***************************************************************************)
(* The five predefined XML entities                                        *)
(***************************************************************************)
AMP  == <<"&","a","m","p",";">>
LT   == <<"&","l","t",";">>
GT   == <<"&","g","t",";">>
QUOT == <<"&","q","u","o","t",";">>
APOS == <<"&","a","p","o","s",";">>

Entities == <<[ent |-> AMP, ch |-> "&"], [ent |-> LT, ch |-> "<"],
              [ent |-> GT, ch |-> ">"], [ent |-> QUOT, ch |-> "\""],
              [ent |-> APOS, ch |-> "'"]>>

(***************************************************************************)
(* libxml2: xmlParseMemory.  The parse tree is a heap of nodes; heap[1]    *)
(* is the xmlDoc itself (the parent of the top-level nodes), and the       *)
(* links children/last/next/parent are heap indexes.                       *)
(***************************************************************************)
\* entity substitution in character data and attribute values
RECURSIVE Unescape(_, _, _)
Unescape(s, i, acc) ==
  IF i > Len(s) THEN [ok |-> TRUE, v |-> acc]
  ELSE IF s[i] = "&"
       THEN IF \E e \in 1..Len(Entities) : StartsWith(s, i, Entities[e].ent)
            THEN LET e == CHOOSE e \in 1..Len(Entities) :
                            StartsWith(s, i, Entities[e].ent)
                 IN Unescape(s, i + Len(Entities[e].ent),
                             Append(acc, Entities[e].ch))
            ELSE [ok |-> FALSE, v |-> <<>>]
       ELSE Unescape(s, i + 1, Append(acc, s[i]))

AttrFail == [ok |-> FALSE, pos |-> 0, attrs |-> <<>>, empty |-> FALSE]

\* the attributes of a start tag, from position i (just after the name)
\* up to and including its ">" or "/>"
RECURSIVE ParseAttrs(_, _, _)
ParseAttrs(s, i, acc) ==
  LET j == ScanWhile(s, i, Space) IN
  IF j > Len(s) THEN AttrFail
  ELSE IF s[j] = ">"
       THEN [ok |-> TRUE, pos |-> j + 1, attrs |-> acc, empty |-> FALSE]
  ELSE IF StartsWith(s, j, <<"/", ">">>)
       THEN [ok |-> TRUE, pos |-> j + 2, attrs |-> acc, empty |-> TRUE]
  ELSE IF j = i \/ s[j] \notin NameStart THEN AttrFail
  ELSE LET k  == ScanWhile(s, j, QNameChar)
           k1 == ScanWhile(s, k, Space)
           k2 == ScanWhile(s, k1 + 1, Space)
       IN IF k1 > Len(s) \/ s[k1] # "=" \/ k2 > Len(s)
             \/ s[k2] \notin {"\"", "'"}
          THEN AttrFail
          ELSE LET e == Find(s, k2 + 1, <<s[k2]>>) IN
               IF e = 0 THEN AttrFail
               ELSE LET raw == SubSeq(s, k2 + 1, e - 1)
                        u   == Unescape(raw, 1, <<>>)
                        nm  == SubSeq(s, j, k - 1)
                    IN IF "<" \in Range(raw) \/ ~u.ok
                          \/ \E a \in 1..Len(acc) : acc[a].name = nm
                       THEN AttrFail
                       ELSE ParseAttrs(s, e + 1,
                                       Append(acc, [name |-> nm, value |-> u.v]))

XMLNS == <<"x","m","l","n","s">>

IsNsDecl(a) == a.name = XMLNS \/ StartsWith(a.name, 1, Append(XMLNS, ":"))

\* the xmlns attributes of a start tag, as namespace definitions
NsDefsOf(attrs) ==
  LET nsd(a) == [prefix |-> IF a.name = XMLNS THEN None
                            ELSE Some(SubSeq(a.name, 7, Len(a.name))),
                 href |-> a.value]
      F[i \in 0..Len(attrs)] ==
        IF i = 0 THEN <<>>
        ELSE IF IsNsDecl(attrs[i]) THEN Append(F[i - 1], nsd(attrs[i]))
             ELSE F[i - 1]
  IN F[Len(attrs)]

PropsOf(attrs) == SelectSeq(attrs, LAMBDA a : ~IsNsDecl(a))

\* the namespace definition in scope for a prefix: the element's own
\* definitions first, then those of its ancestors; <<>> if unbound
RECURSIVE SearchNs(_, _, _, _)
SearchNs(heap, defs, up, prefix) ==
  IF \E d \in 1..Len(defs) : defs[d].prefix = prefix
  THEN Some(defs[CHOOSE d \in 1..Len(defs) : defs[d].prefix = prefix])
  ELSE IF up = NULL THEN None
       ELSE SearchNs(heap, heap[up].nsDef, heap[up].parent, prefix)

NewNode(type, name, parent) ==
  [type |-> type, name |-> name, qname |-> name, ns |-> None, nsDef |-> <<>>,
   attrs |-> <<>>, content |-> <<>>, children |-> NULL, last |-> NULL,
   next |-> NULL, parent |-> parent]

\* append node n to the heap as the last child of its parent
AddChild(heap, n) ==
  LET id == Len(heap) + 1
      p  == n.parent
      h1 == Append(heap, n)
      h2 == IF heap[p].last = NULL
            THEN [h1 EXCEPT ![p].children = id]
            ELSE [h1 EXCEPT ![heap[p].last].next = id]
  IN [h2 EXCEPT ![p].last = id]

ParseFail == [ok |-> FALSE, heap |-> <<>>]

HasRoot(heap) ==
  \E n \in 1..Len(heap) : heap[n].type = "element" /\ heap[n].parent = 1

\* the content of the element cur (of the document when cur = 1) from
\* position i on, one markup item or run of character data at a time
RECURSIVE ParseContent(_, _, _, _)
ParseContent(s, i, heap, cur) ==
  IF i > Len(s)
  THEN IF cur = 1 /\ HasRoot(heap) THEN [ok |-> TRUE, heap |-> heap]
       ELSE ParseFail
  ELSE IF s[i] # "<"
  THEN LET e0  == Find(s, i, <<"<">>)
           e   == IF e0 = 0 THEN Len(s) + 1 ELSE e0
           raw == SubSeq(s, i, e - 1)
           u   == Unescape(raw, 1, <<>>)
       IN IF cur = 1
          THEN IF Range(raw) \subseteq Space
               THEN ParseContent(s, e, heap, cur)
               ELSE ParseFail
          ELSE IF ~u.ok THEN ParseFail
          ELSE ParseContent(s, e,
                 AddChild(heap, [NewNode("text", <<"t","e","x","t">>, cur)
                                   EXCEPT !.content = u.v]),
                 cur)
  ELSE IF StartsWith(s, i, <<"<","!","-","-">>)
  THEN LET e == Find(s, i + 4, <<"-","-",">">>) IN
       IF e = 0 THEN ParseFail
       ELSE ParseContent(s, e + 3,
              AddChild(heap,
                [NewNode("comment", <<"c","o","m","m","e","n","t">>, cur)
                   EXCEPT !.content = SubSeq(s, i + 4, e - 1)]),
              cur)
  ELSE IF StartsWith(s, i, <<"<","?">>)
  THEN LET e == Find(s, i + 2, <<"?",">">>) IN
       IF e = 0 THEN ParseFail
       ELSE IF StartsWith(s, i, <<"<","?","x","m","l"," ">>)
       THEN IF i = 1 THEN ParseContent(s, e + 2, heap, cur) ELSE ParseFail
       ELSE ParseContent(s, e + 2,
              AddChild(heap, [NewNode("pi", <<"p","i">>, cur)
                                EXCEPT !.content = SubSeq(s, i + 2, e - 1)]),
              cur)
  ELSE IF StartsWith(s, i, <<"<","/">>)
  THEN LET k  == ScanWhile(s, i + 2, QNameChar)
           k1 == ScanWhile(s, k, Space)
       IN IF cur = 1 \/ k1 > Len(s) \/ s[k1] # ">"
             \/ SubSeq(s, i + 2, k - 1) # heap[cur].qname
          THEN ParseFail
          ELSE ParseContent(s, k1 + 1, heap, heap[cur].parent)
  ELSE LET k  == ScanWhile(s, i + 1, QNameChar)
           qn == SubSeq(s, i + 1, k - 1)
           a  == ParseAttrs(s, k, <<>>)
       IN IF k = i + 1 \/ s[i + 1] \notin NameStart \/ ~a.ok
             \/ (cur = 1 /\ HasRoot(heap))
          THEN ParseFail
          ELSE LET defs   == NsDefsOf(a.attrs)
                   c      == Find(qn, 1, <<":">>)
                   prefix == IF c = 0 THEN None ELSE Some(SubSeq(qn, 1, c - 1))
                   local  == IF c = 0 THEN qn ELSE SubSeq(qn, c + 1, Len(qn))
                   d      == SearchNs(heap, defs, cur, prefix)
                   bound  == ~IsNone(d) /\ Get(d).href # <<>>
                   node   == [NewNode("element",
                                      IF bound \/ c = 0 THEN local ELSE qn, cur)
                                EXCEPT !.qname = qn,
                                       !.ns = IF bound
                                              THEN Some([prefix |-> prefix,
                                                         href |-> Get(d).href])
                                              ELSE None,
                                       !.nsDef = defs,
                                       !.attrs = PropsOf(a.attrs)]
                   h      == AddChild(heap, node)
               IN ParseContent(s, a.pos, h, IF a.empty THEN cur ELSE Len(h))

DocNode == NewNode("document", <<>>, NULL)

\* xmlParseMemory: ok is FALSE when the text is not well-formed (the C
\* function then returns NULL)
xmlParseMemory(xml_text) == ParseContent(xml_text, 1, <<DocNode>>, 1)

\* xmlDocGetRootElement: the first element among the document's children
RECURSIVE FirstElement(_, _)
FirstElement(heap, n) ==
  IF n = NULL \/ heap[n].type = "element" THEN n
  ELSE FirstElement(heap, heap[n].next)

xmlDocGetRootElement(heap) == FirstElement(heap, heap[1].children)

\* xmlNodeGetContent of an element: the character data of its descendants,
\* in document order
RECURSIVE ContentOfList(_, _)
ContentOfList(heap, n) ==
  IF n = NULL THEN <<>>
  ELSE (IF heap[n].type = "text" THEN heap[n].content
        ELSE IF heap[n].type = "element"
             THEN ContentOfList(heap, heap[n].children)
             ELSE <<>>)
       \o ContentOfList(heap, heap[n].next)

xmlNodeGetContent(heap, n) == ContentOfList(heap, heap[n].children)

(***************************************************************************)
(* libc and GLib helpers the reader and the writer call                    *)
(***************************************************************************)
\* fnmatch(pattern, string, 0) for patterns made of literals, ? and *
RECURSIVE GlobMatch(_, _)
GlobMatch(p, s) ==
  IF p = <<>> THEN s = <<>>
  ELSE IF Head(p) = "*"
       THEN GlobMatch(Tail(p), s) \/ (s # <<>> /\ GlobMatch(p, Tail(s)))
       ELSE /\ s # <<>>
            /\ Head(p) = "?" \/ Head(p) = Head(s)
            /\ GlobMatch(Tail(p), Tail(s))

\* 0 on a match, FNM_NOMATCH otherwise
fnmatch(pattern, string) == IF GlobMatch(pattern, string) THEN 0 ELSE 1

\* g_strstrip: drop leading and trailing white space
g_strstrip(s) ==
  LET a == ScanWhile(s, 1, Space)
      b == IF a > Len(s) THEN a - 1
           ELSE CHOOSE j \in a..Len(s) :
                  s[j] \notin Space /\ \A k \in (j + 1)..Len(s) : s[k] \in Space
  IN SubSeq(s, a, b)

\* g_string_truncate: cut to len characters, if the string is longer
g_string_truncate(str, len) ==
  IF len < Len(str) THEN SubSeq(str, 1, len) ELSE str

(***************************************************************************)
(* Integer widths.  SANE_Word is a signed int of WordBits bits, unsigned   *)
(* int has WordBits bits and unsigned long LongBits bits (LP64: twice the  *)
(* width of int).                                                          *)
(***************************************************************************)
WordBits == 4
LongBits == 2 * WordBits

UINT_MAX  == 2^WordBits - 1
WORD_MAX  == 2^(WordBits - 1) - 1
ULONG_MAX == 2^LongBits - 1

\* (SANE_Word) v for an unsigned long v: keep the low WordBits bits, the
\* top one being the sign
ToWord(v) ==
  LET low == v % 2^WordBits IN
  IF low > WORD_MAX THEN low - 2^WordBits ELSE low

\* (unsigned long) w for a SANE_Word w: sign extension
ToULong(w) == w % 2^LongBits

\* strtoul(s, &end, 10): white space, an optional sign, decimal digits.
\* end is the index of the first character not converted (1 when there
\* are no digits); a value over ULONG_MAX converts to ULONG_MAX, and a
\* minus sign negates the value as an unsigned long.
RECURSIVE StrtoulDigits(_, _, _, _)
StrtoulDigits(s, i, acc, over) ==
  IF i > Len(s) \/ s[i] \notin DigitSet
  THEN [v |-> acc, over |-> over, end |-> i]
  ELSE LET n == acc * 10 + DigitVal(s[i]) IN
       IF over \/ n > ULONG_MAX
       THEN StrtoulDigits(s, i + 1, ULONG_MAX, TRUE)
       ELSE StrtoulDigits(s, i + 1, n, FALSE)

strtoul(s) ==
  LET a    == ScanWhile(s, 1, Space)
      sign == a <= Len(s) /\ s[a] \in {"+", "-"}
      b    == IF sign THEN a + 1 ELSE a
      d    == StrtoulDigits(s, b, 0, FALSE)
  IN IF d.end = b THEN [v |-> 0, end |-> 1]
     ELSE [v |-> IF sign /\ s[a] = "-" /\ ~d.over
                 THEN (2^LongBits - d.v) % 2^LongBits
                 ELSE d.v,
           end |-> d.end]

\* sprintf(buf, "%u", value)
RECURSIVE FormatUint(_)
FormatUint(value) ==
  IF value < 10 THEN <<Digits[value + 1]>>
  ELSE Append(FormatUint(value \div 10), Digits[(value % 10) + 1])

(***************************************************************************)
(* XML reader.  A struct xml_rd is a record; every function below takes    *)
(* the struct and returns it as the function leaves it.                    *)
(***************************************************************************)
PATHLEN_CAP_INIT == 8
SUBST_CACHE_CAP_INIT == 4

\* xml->pathlen is kept as a sequence: slot d of the C array is element
\* d + 1, and -1 stands for a slot g_malloc left unset
UnsetSlots(n) == [i \in 1..n |-> -1]

\* the first element node among n and the siblings after it, NULL if none
RECURSIVE SkipDummy(_, _)
SkipDummy(doc, n) ==
  IF n # NULL /\ doc[n].type # "element" THEN SkipDummy(doc, doc[n].next)
  ELSE n

xml_rd_skip_dummy(xml) ==
  With(xml, LAMBDA x : [x EXCEPT !.node = SkipDummy(x.doc, x.node)])

\* xml_rd_node_invalidate_value that leaves the cached text in place
xml_rd_node_invalidate_value_keep(xml) == xml

xml_rd_node_invalidate_value(xml) == [xml EXCEPT !.text = None]

\* xml_rd_ns_subst_lookup that stores the matching rule in the cache but
\* returns the prefix it was handed (the assignment to prefix is lost)
xml_rd_ns_subst_lookup_late(xml, prefix, href) ==
  IF IsNone(xml.subst_rules)
  THEN [xml |-> xml, prefix |-> prefix]
  ELSE LET cache == xml.subst_cache
           rules == Get(xml.subst_rules)
           hits  == {i \in 1..Len(cache) : cache[i].uri = href}
           match == {i \in 1..Len(rules) : fnmatch(rules[i].uri, href) = 0}
           Min(S) == CHOOSE i \in S : \A j \in S : i <= j
       IN IF hits # {}
          THEN [xml |-> xml, prefix |-> Some(cache[Min(hits)].prefix)]
          ELSE IF match = {}
          THEN [xml |-> xml, prefix |-> prefix]
          ELSE [xml |-> [xml EXCEPT
                           !.subst_cache_cap =
                              IF @ = 0 THEN SUBST_CACHE_CAP_INIT ELSE @,
                           !.subst_cache =
                              Append(cache,
                                     [prefix |-> rules[Min(match)].prefix,
                                      uri |-> href])],
                prefix |-> prefix]

\* xml_rd_ns_subst_lookup without the look into the cache: every call
\* scans the rules and stores what it finds
xml_rd_ns_subst_lookup_rescan(xml, prefix, href) ==
  IF IsNone(xml.subst_rules)
  THEN [xml |-> xml, prefix |-> prefix]
  ELSE LET cache == xml.subst_cache
           rules == Get(xml.subst_rules)
           match == {i \in 1..Len(rules) : fnmatch(rules[i].uri, href) = 0}
           Min(S) == CHOOSE i \in S : \A j \in S : i <= j
       IN IF match = {}
          THEN [xml |-> xml, prefix |-> prefix]
          ELSE [xml |-> [xml EXCEPT
                           !.subst_cache_cap =
                              IF @ = 0 THEN SUBST_CACHE_CAP_INIT ELSE @,
                           !.subst_cache =
                              Append(cache,
                                     [prefix |-> rules[Min(match)].prefix,
                                      uri |-> href])],
                prefix |-> Some(rules[Min(match)].prefix)]

\* xml_rd_ns_subst_lookup that stores the last matching rule in the cache
\* and returns the first
xml_rd_ns_subst_lookup_store_last(xml, prefix, href) ==
  IF IsNone(xml.subst_rules)
  THEN [xml |-> xml, prefix |-> prefix]
  ELSE LET cache == xml.subst_cache
           rules == Get(xml.subst_rules)
           hits  == {i \in 1..Len(cache) : cache[i].uri = href}
           match == {i \in 1..Len(rules) : fnmatch(rules[i].uri, href) = 0}
           Min(S) == CHOOSE i \in S : \A j \in S : i <= j
           Max(S) == CHOOSE i \in S : \A j \in S : i >= j
       IN IF hits # {}
          THEN [xml |-> xml, prefix |-> Some(cache[Min(hits)].prefix)]
          ELSE IF match = {}
          THEN [xml |-> xml, prefix |-> prefix]
          ELSE [xml |-> [xml EXCEPT
                           !.subst_cache_cap =
                              IF @ = 0 THEN SUBST_CACHE_CAP_INIT ELSE @,
                           !.subst_cache =
                              Append(cache,
                                     [prefix |-> rules[Max(match)].prefix,
                                      uri |-> href])],
                prefix |-> Some(rules[Min(match)].prefix)]

\* returns the struct (its cache may have grown) and the prefix
xml_rd_ns_subst_lookup(xml, prefix, href) ==
  IF IsNone(xml.subst_rules)
  THEN [xml |-> xml, prefix |-> prefix]
  ELSE LET cache == xml.subst_cache
           rules == Get(xml.subst_rules)
           hits  == {i \in 1..Len(cache) : cache[i].uri = href}
           match == {i \in 1..Len(rules) : fnmatch(rules[i].uri, href) = 0}
           Min(S) == CHOOSE i \in S : \A j \in S : i <= j
       IN IF hits # {}
          THEN [xml |-> xml, prefix |-> Some(cache[Min(hits)].prefix)]
          ELSE IF match = {}
          THEN [xml |-> xml, prefix |-> prefix]
          ELSE LET r   == rules[Min(match)]
                   cap == IF Len(cache) = xml.subst_cache_cap
                          THEN IF xml.subst_cache_cap = 0
                               THEN SUBST_CACHE_CAP_INIT
                               ELSE xml.subst_cache_cap * 2
                          ELSE xml.subst_cache_cap
               IN [xml |-> [xml EXCEPT
                              !.subst_cache_cap = cap,
                              !.subst_cache =
                                 Append(cache, [prefix |-> r.prefix,
                                                uri |-> href])],
                   prefix |-> Some(r.prefix)]

\* xml_rd_node_switched without the g_string_truncate: the name of the new
\* node is appended to the path of the old one
xml_rd_node_switched_no_truncate(xml) ==
  With(xml_rd_node_invalidate_value(xml), LAMBDA x2 :
    IF x2.node = NULL
    THEN [x2 EXCEPT !.name = None]
    ELSE With(x2.doc[x2.node], LAMBDA n :
         With(IF ~IsNone(n.ns)
              THEN xml_rd_ns_subst_lookup(x2, Get(n.ns).prefix, Get(n.ns).href)
              ELSE [xml |-> x2, prefix |-> None], LAMBDA lk :
           [lk.xml EXCEPT
              !.path = (IF ~IsNone(lk.prefix)
                        THEN @ \o Get(lk.prefix) \o <<":">>
                        ELSE @) \o n.name,
              !.name = Some(Len(x2.path))])))

xml_rd_node_switched(xml) ==
  With(xml_rd_node_invalidate_value(xml), LAMBDA x1 :
  With(IF x1.depth # 0 THEN x1.pathlen[x1.depth] ELSE 0, LAMBDA pathlen :
  With([x1 EXCEPT !.path = g_string_truncate(@, pathlen)], LAMBDA x2 :
    IF x2.node = NULL
    THEN [x2 EXCEPT !.name = None]
    ELSE With(x2.doc[x2.node], LAMBDA n :
         With(IF ~IsNone(n.ns)
              THEN xml_rd_ns_subst_lookup(x2, Get(n.ns).prefix, Get(n.ns).href)
              ELSE [xml |-> x2, prefix |-> None], LAMBDA lk :
           [lk.xml EXCEPT
              !.path = (IF ~IsNone(lk.prefix)
                        THEN @ \o Get(lk.prefix) \o <<":">>
                        ELSE @) \o n.name,
              !.name = Some(pathlen)])))))

\* the struct g_new0 returns, with the fields xml_rd_begin sets
xml_rd_new(doc, ns) ==
  [doc |-> doc, node |-> xmlDocGetRootElement(doc), parent |-> NULL,
   name |-> None, path |-> <<>>, pathlen |-> UnsetSlots(PATHLEN_CAP_INIT),
   pathlen_cap |-> PATHLEN_CAP_INIT, text |-> None, depth |-> 0,
   subst_rules |-> ns, subst_cache |-> <<>>, subst_cache_cap |-> 0]

\* err is TRUE for ERROR("Failed to parse XML"); xml is what is stored in
\* the caller's handle (None for NULL)
xml_rd_begin(xml_text, ns) ==
  With(xmlParseMemory(xml_text), LAMBDA doc :
    IF ~doc.ok
    THEN [err |-> TRUE, xml |-> None]
    ELSE [err |-> FALSE,
          xml |-> Some(xml_rd_node_switched(
                         xml_rd_skip_dummy(xml_rd_new(doc.heap, ns))))])

xml_rd_depth(xml) == xml.depth

xml_rd_end(xml) == xml.node = NULL

xml_rd_next(xml) ==
  With(xml, LAMBDA x :
    IF x.node # NULL
    THEN xml_rd_node_switched(
           xml_rd_skip_dummy([x EXCEPT !.node = x.doc[x.node].next]))
    ELSE x)

\* xml_rd_enter that counts a level also when there is no node to enter
xml_rd_enter_count_at_end(xml) ==
  With(xml, LAMBDA x :
    IF x.node # NULL
    THEN With(x.depth = x.pathlen_cap, LAMBDA grow :
         With(Append(x.path, "/"), LAMBDA path :
         With([x EXCEPT
                 !.pathlen_cap = IF grow THEN @ * 2 ELSE @,
                 !.path = path,
                 !.pathlen = [(IF grow THEN @ \o UnsetSlots(x.pathlen_cap)
                               ELSE @) EXCEPT ![x.depth + 1] = Len(path)],
                 !.parent = x.node,
                 !.node = x.doc[x.node].children], LAMBDA x1 :
         With(xml_rd_skip_dummy(x1), LAMBDA x2 :
           xml_rd_node_switched(
             xml_rd_skip_dummy([x2 EXCEPT !.depth = @ + 1]))))))
    ELSE [x EXCEPT !.depth = IF @ < x.pathlen_cap THEN @ + 1 ELSE @])

\* xml_rd_enter that saves the path length before it appends the '/'
xml_rd_enter_len_before_slash(xml) ==
  With(xml, LAMBDA x :
    IF x.node # NULL
    THEN With(x.depth = x.pathlen_cap, LAMBDA grow :
         With(Append(x.path, "/"), LAMBDA path :
         With([x EXCEPT
                 !.pathlen_cap = IF grow THEN @ * 2 ELSE @,
                 !.path = path,
                 !.pathlen = [(IF grow THEN @ \o UnsetSlots(x.pathlen_cap)
                               ELSE @) EXCEPT ![x.depth + 1] = Len(x.path)],
                 !.parent = x.node,
                 !.node = x.doc[x.node].children], LAMBDA x1 :
         With(xml_rd_skip_dummy(x1), LAMBDA x2 :
           xml_rd_node_switched(
             xml_rd_skip_dummy([x2 EXCEPT !.depth = @ + 1]))))))
    ELSE x)

xml_rd_enter(xml) ==
  With(xml, LAMBDA x :
    IF x.node # NULL
    THEN With(x.depth = x.pathlen_cap, LAMBDA grow :
         With(Append(x.path, "/"), LAMBDA path :
         With([x EXCEPT
                 !.pathlen_cap = IF grow THEN @ * 2 ELSE @,
                 !.path = path,
                 !.pathlen = [(IF grow THEN @ \o UnsetSlots(x.pathlen_cap)
                               ELSE @) EXCEPT ![x.depth + 1] = Len(path)],
                 !.parent = x.node,
                 !.node = x.doc[x.node].children], LAMBDA x1 :
         With(xml_rd_skip_dummy(x1), LAMBDA x2 :
           xml_rd_node_switched(
             xml_rd_skip_dummy([x2 EXCEPT !.depth = @ + 1]))))))
    ELSE x)

\* xml_rd_leave without the call of xml_rd_node_switched: the path and the
\* name stay those of the node that was left
xml_rd_leave_no_switch(xml) ==
  With(xml, LAMBDA x :
    IF x.depth > 0
    THEN With([x EXCEPT !.depth = @ - 1, !.node = x.parent], LAMBDA x1 :
           IF x1.node # NULL
           THEN [x1 EXCEPT !.parent = x1.doc[x1.node].parent]
           ELSE x1)
    ELSE x)

\* xml_rd_leave that keeps xml->parent as it was
xml_rd_leave_keep_parent(xml) ==
  With(xml, LAMBDA x :
    IF x.depth > 0
    THEN xml_rd_node_switched([x EXCEPT !.depth = @ - 1, !.node = x.parent])
    ELSE x)

xml_rd_leave(xml) ==
  With(xml, LAMBDA x :
    IF x.depth > 0
    THEN With([x EXCEPT !.depth = @ - 1, !.node = x.parent], LAMBDA x1 :
           xml_rd_node_switched(
             IF x1.node # NULL
             THEN [x1 EXCEPT !.parent = x1.doc[x1.node].parent]
             ELSE x1))
    ELSE x)

\* the loop of xml_rd_deep_next with its test turned round: it goes on
\* while the cursor is on a node
RECURSIVE xml_rd_deep_next_loop_not_end(_, _)
xml_rd_deep_next_loop_not_end(xml, depth) ==
  With(xml, LAMBDA x :
    IF ~xml_rd_end(x) /\ xml_rd_depth(x) > depth + 1
    THEN xml_rd_deep_next_loop_not_end(xml_rd_next(xml_rd_leave(x)), depth)
    ELSE x)

\* the while loop of xml_rd_deep_next
RECURSIVE xml_rd_deep_next_loop(_, _)
xml_rd_deep_next_loop(xml, depth) ==
  With(xml, LAMBDA x :
    IF xml_rd_end(x) /\ xml_rd_depth(x) > depth + 1
    THEN xml_rd_deep_next_loop(xml_rd_next(xml_rd_leave(x)), depth)
    ELSE x)

xml_rd_deep_next(xml, depth) ==
  xml_rd_deep_next_loop(xml_rd_enter(xml), depth)

\* xml->name points into xml->path->str: the string from there to the end
xml_rd_node_name(xml) ==
  IF IsNone(xml.name) THEN None
  ELSE Some(SubSeq(xml.path, Get(xml.name) + 1, Len(xml.path)))

xml_rd_node_path(xml) == IF xml.node # NULL THEN Some(xml.path) ELSE None

xml_rd_node_name_match(xml, pattern) == xml_rd_node_name(xml) = Some(pattern)

\* returns the struct (the value is cached in it) and the value
xml_rd_node_value(xml) ==
  With(xml, LAMBDA x :
  With(IF IsNone(x.text) /\ x.node # NULL
       THEN [x EXCEPT !.text =
               Some(g_strstrip(xmlNodeGetContent(x.doc, x.node)))]
       ELSE x, LAMBDA x1 :
    [xml |-> x1, s |-> x1.text]))

\* log_assert(log, expr): the process is ended when expr is false
log_assert(expr) == IF expr THEN "ok" ELSE "panic"

\* val is the caller's SANE_Word (None while it holds nothing); the result
\* gives the struct, the caller's word, whether an error is returned and
\* whether the assertion ended the process
xml_rd_node_value_uint(xml, val) ==
  With(xml_rd_node_value(xml), LAMBDA r :
    IF log_assert(~IsNone(r.s)) = "panic"
    THEN [xml |-> r.xml, val |-> val, err |-> FALSE, panic |-> TRUE]
    ELSE With(Get(r.s), LAMBDA s :
         With(strtoul(s), LAMBDA c :
           IF c.end = 1 \/ c.end <= Len(s) \/ c.v # ToULong(ToWord(c.v))
           THEN [xml |-> r.xml, val |-> val, err |-> TRUE, panic |-> FALSE]
           ELSE [xml |-> r.xml, val |-> Some(ToWord(c.v)), err |-> FALSE,
                 panic |-> FALSE])))

(***************************************************************************)
(* XML writer.  A struct xml_wr is a record whose heap holds the           *)
(* xml_wr_node structs; the links children/next/parent are heap indexes.   *)
(***************************************************************************)
XMLNSATTR == <<" ","x","m","l","n","s",":">>

XMLDECL == <<"<","?","x","m","l"," ","v","e","r","s","i","o","n","=","\"","1",".","0","\""," ",
  "e","n","c","o","d","i","n","g","=","\"",
  "U","T","F","-","8","\"","?",">">>

STR_TRUE == <<"t","r","u","e">>

STR_FALSE == <<"f","a","l","s","e">>

xml_wr_node_new(name, value, attrs) ==
  [name |-> name, value |-> value, attrs |-> attrs,
   children |-> NULL, next |-> NULL, parent |-> NULL]

xml_wr_begin(root, ns) ==
  [heap |-> <<xml_wr_node_new(root, None, None)>>, root |-> 1,
   current |-> 1, ns |-> ns]

\* xml_wr_format_indent with one space for a level
xml_wr_format_indent_one(buf, level) ==
  buf \o [i \in 1..level |-> " "]

xml_wr_format_indent(buf, level) ==
  buf \o [i \in 1..(2 * level) |-> " "]

xml_wr_format_value(buf, value) ==
  LET Esc(c) == CASE c = "&"  -> AMP
                  [] c = "<"  -> LT
                  [] c = ">"  -> GT
                  [] c = "\"" -> QUOT
                  [] c = "'"  -> APOS
                  [] OTHER    -> <<c>>
  IN buf \o Concat([i \in 1..Len(value) |-> Esc(value[i])])

\* the " xmlns:%s=\"%s\"" of the root node
FormatNs(buf, ns) ==
  buf \o Concat([i \in 1..Len(ns) |->
                   XMLNSATTR \o ns[i].prefix \o <<"=", "\"">>
                   \o ns[i].uri \o <<"\"">>])

\* the " %s=\"%s\"" of a node's attributes
FormatAttrs(buf, attrs) ==
  IF IsNone(attrs) THEN buf
  ELSE LET a == Get(attrs) IN
       buf \o Concat([i \in 1..Len(a) |->
                        <<" ">> \o a[i].name \o <<"=", "\"">>
                        \o a[i].value \o <<"\"">>])

RECURSIVE xml_wr_format_node(_, _, _, _, _)
RECURSIVE FormatChildren(_, _, _, _, _)
FormatChildren(xml, buf, node2, level, compact) ==
  IF node2 = NULL THEN buf
  ELSE FormatChildren(xml,
                      xml_wr_format_node(xml, buf, node2, level, compact),
                      xml.heap[node2].next, level, compact)

xml_wr_format_node(xml, buf, node, level, compact) ==
  LET n  == xml.heap[node]
      b1 == IF ~compact THEN xml_wr_format_indent(buf, level) ELSE buf
      b2 == b1 \o <<"<">> \o n.name
      b3 == IF level = 0 THEN FormatNs(b2, xml.ns) ELSE b2
      b4 == Append(FormatAttrs(b3, n.attrs), ">")
      close == <<"<", "/">> \o n.name \o <<">">>
  IN IF n.children # NULL
     THEN LET c1 == IF ~compact THEN Append(b4, "\n") ELSE b4
              c2 == FormatChildren(xml, c1, n.children, level + 1, compact)
              c3 == IF ~compact THEN xml_wr_format_indent(c2, level) ELSE c2
              c4 == c3 \o close
          IN IF ~compact /\ level # 0 THEN Append(c4, "\n") ELSE c4
     ELSE LET d1 == IF ~IsNone(n.value)
                    THEN xml_wr_format_value(b4, Get(n.value))
                    ELSE b4
              d2 == d1 \o close
          IN IF ~compact THEN Append(d2, "\n") ELSE d2

\* returns the heap with the child lists of node and of its descendants
\* reverted
RECURSIVE xml_wr_revert_children(_, _)
RECURSIVE RevertLoop(_, _, _)
RevertLoop(heap, node2, prev) ==
  IF node2 = NULL THEN [heap |-> heap, prev |-> prev]
  ELSE LET h1   == xml_wr_revert_children(heap, node2)
           next == h1[node2].next
       IN RevertLoop([h1 EXCEPT ![node2].next = prev], next, node2)

\* xml_wr_revert_children without its last assignment: node->children
\* still points at what was the head of the list
xml_wr_revert_children_old_head(heap, node) ==
  RevertLoop(heap, heap[node].children, NULL).heap

xml_wr_revert_children(heap, node) ==
  LET r == RevertLoop(heap, heap[node].children, NULL) IN
  [r.heap EXCEPT ![node].children = r.prev]

\* the nodes xml_wr_node_free is called on, in the order of the calls
RECURSIVE xml_wr_node_free_recursive(_, _)
RECURSIVE FreeLoop(_, _)
FreeLoop(heap, node2) ==
  IF node2 = NULL THEN <<>>
  ELSE xml_wr_node_free_recursive(heap, node2)
       \o FreeLoop(heap, heap[node2].next)

xml_wr_node_free_recursive(heap, node) ==
  Append(FreeLoop(heap, heap[node].children), node)

\* xml_wr_finish_internal with the call of xml_wr_revert_children moved
\* into the branch of the pretty format
xml_wr_finish_internal_revert_pretty(xml, compact) ==
  LET b0 == XMLDECL
      b1 == IF ~compact THEN Append(b0, "\n") ELSE b0
      x1 == IF ~compact
            THEN [xml EXCEPT
                    !.heap = xml_wr_revert_children(xml.heap, xml.root)]
            ELSE xml
  IN [str   |-> xml_wr_format_node(x1, b1, x1.root, 0, compact),
      freed |-> xml_wr_node_free_recursive(x1.heap, x1.root)]

\* returns the string and the nodes freed
xml_wr_finish_internal(xml, compact) ==
  LET b0 == XMLDECL
      b1 == IF ~compact THEN Append(b0, "\n") ELSE b0
      x1 == [xml EXCEPT !.heap = xml_wr_revert_children(xml.heap, xml.root)]
  IN [str   |-> xml_wr_format_node(x1, b1, x1.root, 0, compact),
      freed |-> xml_wr_node_free_recursive(x1.heap, x1.root)]

xml_wr_finish(xml) == xml_wr_finish_internal(xml, FALSE)

xml_wr_finish_compact(xml) == xml_wr_finish_internal(xml, TRUE)

\* xml_wr_add_node that does not chain the new node to its siblings
xml_wr_add_node_no_next(xml, node) ==
  LET id == Len(xml.heap) + 1
      n  == [node EXCEPT !.parent = xml.current]
  IN [xml EXCEPT !.heap = [Append(xml.heap, n)
                             EXCEPT ![xml.current].children = id]]

\* returns the struct with the node added to the heap and linked in
xml_wr_add_node(xml, node) ==
  LET id == Len(xml.heap) + 1
      n  == [node EXCEPT !.parent = xml.current,
                         !.next = xml.heap[xml.current].children]
  IN [xml EXCEPT !.heap = [Append(xml.heap, n)
                             EXCEPT ![xml.current].children = id]]

xml_wr_add_text_attr(xml, name, value, attrs) ==
  xml_wr_add_node(xml, xml_wr_node_new(name, Some(value), attrs))

xml_wr_add_text(xml, name, value) ==
  xml_wr_add_text_attr(xml, name, value, None)

xml_wr_add_uint_attr(xml, name, value, attrs) ==
  xml_wr_add_text_attr(xml, name, FormatUint(value), attrs)

xml_wr_add_uint(xml, name, value) ==
  xml_wr_add_uint_attr(xml, name, value, None)

xml_wr_add_bool_attr(xml, name, value, attrs) ==
  xml_wr_add_text_attr(xml, name, IF value THEN STR_TRUE ELSE STR_FALSE, attrs)

xml_wr_add_bool(xml, name, value) ==
  xml_wr_add_bool_attr(xml, name, value, None)

xml_wr_enter_attr(xml, name, attrs) ==
  LET x1 == xml_wr_add_node(xml, xml_wr_node_new(name, None, attrs)) IN
  [x1 EXCEPT !.current = Len(x1.heap)]

xml_wr_enter(xml, name) == xml_wr_enter_attr(xml, name, None)

\* xml_wr_leave without its assertion: on the root, current becomes NULL
xml_wr_leave_no_assert(xml) ==
  [xml |-> [xml EXCEPT !.current = xml.heap[xml.current].parent],
   panic |-> FALSE]

\* returns the struct and whether the assertion ended the process
xml_wr_leave(xml) ==
  IF log_assert(xml.heap[xml.current].parent # NULL) = "panic"
  THEN [xml |-> xml, panic |-> TRUE]
  ELSE [xml |-> [xml EXCEPT !.current = xml.heap[xml.current].parent],
        panic |-> FALSE]

(***************************************************************************)
(* xml_format and libxml2's xmlDocDumpFormatMemory                         *)
(***************************************************************************)
DUMPDECL ==
  <<"<","?","x","m","l"," ","v","e","r","s","i","o","n","=","\"","1",".",
    "0","\"","?",">","\n">>

\* the document as text: the declaration and the tree, one item after the
\* other (the indentation libxml2 adds is left out)
RECURSIVE DumpList(_, _)
DumpList(heap, n) ==
  IF n = NULL THEN <<>>
  ELSE LET e == heap[n]
           EscText(c) == CASE c = "&" -> AMP [] c = "<" -> LT
                           [] c = ">" -> GT [] OTHER -> <<c>>
           EscAttr(c) == CASE c = "&" -> AMP [] c = "<" -> LT
                           [] c = "\"" -> QUOT [] OTHER -> <<c>>
           Esc(v, F(_)) == Concat([i \in 1..Len(v) |-> F(v[i])])
           nsd == Concat([i \in 1..Len(e.nsDef) |->
                    (IF IsNone(e.nsDef[i].prefix) THEN <<" ">> \o XMLNS
                     ELSE XMLNSATTR \o Get(e.nsDef[i].prefix))
                    \o <<"=", "\"">> \o Esc(e.nsDef[i].href, EscAttr)
                    \o <<"\"">>])
           att == Concat([i \in 1..Len(e.attrs) |->
                    <<" ">> \o e.attrs[i].name \o <<"=", "\"">>
                    \o Esc(e.attrs[i].value, EscAttr) \o <<"\"">>])
           this ==
             CASE e.type = "element" ->
                    <<"<">> \o e.qname \o nsd \o att
                    \o (IF e.children = NULL THEN <<"/", ">">>
                        ELSE <<">">> \o DumpList(heap, e.children)
                             \o <<"<", "/">> \o e.qname \o <<">">>)
               [] e.type = "text" -> Esc(e.content, EscText)
               [] e.type = "comment" ->
                    <<"<","!","-","-">> \o e.content \o <<"-","-",">">>
               [] OTHER -> <<"<", "?">> \o e.content \o <<"?", ">">>
       IN this \o DumpList(heap, e.next)

\* dump_ok is FALSE when libxml2 cannot build the text: out_size is then 0
xmlDocDumpFormatMemory(heap, dump_ok) ==
  IF dump_ok
  THEN DUMPDECL \o DumpList(heap, heap[1].children) \o <<"\n">>
  ELSE <<>>

\* what a FILE can do with the one item fwrite is handed: take it whole,
\* take a part of it and fail, or fail at once
FwriteOutcomes == {"whole", "part", "none"}

\* fwrite(ptr, size, 1, fp): fp is the text the file holds so far
fwrite(ptr, fp, io) ==
  CASE io = "whole" -> fp \o ptr
    [] io = "part"  -> fp \o SubSeq(ptr, 1, Len(ptr) - 1)
    [] OTHER        -> fp

\* returns the file as xml_format leaves it, and the function's result;
\* fwrite's own result is not looked at
xml_format(fp, xml_text, dump_ok, io) ==
  With(xmlParseMemory(xml_text), LAMBDA doc :
    IF ~doc.ok
    THEN [fp |-> fp, ret |-> FALSE]
    ELSE With(xmlDocDumpFormatMemory(doc.heap, dump_ok), LAMBDA out_data :
         With(Len(out_data), LAMBDA out_size :
           [fp  |-> IF out_size > 0 THEN fwrite(out_data, fp, io) ELSE fp,
            ret |-> out_size > 0])))

(***************************************************************************)
(* Inputs                                                                  *)
(***************************************************************************)
\* <a:Foo xmlns:a="urn:x:1"><a:Bar>7</a:Bar></a:Foo>
DOC_SCAN ==
  <<"<","a",":","F","o","o"," ","x","m","l","n","s",":","a","=","\"","u",
    "r","n",":","x",":","1","\"",">","<","a",":","B","a","r",">","7","<",
    "/","a",":","B","a","r",">","<","/","a",":","F","o","o",">">>

\* <a><b></a>
DOC_BAD ==
  <<"<","a",">","<","b",">","<","/","a",">">>

\* <?xml version="1.0"?><!--c--><r><a><b>5</b> <c/></a>\n<d> 3 </d><e>-1</e></r><!--z-->
DOC_TREE ==
  <<"<","?","x","m","l"," ","v","e","r","s","i","o","n","=","\"","1",".",
    "0","\"","?",">","<","!","-","-","c","-","-",">","<","r",">","<","a",
    ">","<","b",">","5","<","/","b",">"," ","<","c","/",">","<","/","a",
    ">","\n","<","d",">"," ","3"," ","<","/","d",">","<","e",">","-","1",
    "<","/","e",">","<","/","r",">","<","!","-","-","z","-","-",">">>

\* <p:r xmlns:p="u1" xmlns:q="u1" xmlns:z="v"><q:a>+5</q:a><z:b><p:c>12x</p:c></z:b><d xmlns="u1">9</d><e xmlns="u2">300</e></p:r>
DOC_NS ==
  <<"<","p",":","r"," ","x","m","l","n","s",":","p","=","\"","u","1","\"",
    " ","x","m","l","n","s",":","q","=","\"","u","1","\""," ","x","m","l",
    "n","s",":","z","=","\"","v","\"",">","<","q",":","a",">","+","5","<",
    "/","q",":","a",">","<","z",":","b",">","<","p",":","c",">","1","2",
    "x","<","/","p",":","c",">","<","/","z",":","b",">","<","d"," ","x",
    "m","l","n","s","=","\"","u","1","\"",">","9","<","/","d",">","<","e",
    " ","x","m","l","n","s","=","\"","u","2","\"",">","3","0","0","<","/",
    "e",">","<","/","p",":","r",">">>

\* <n><i></i><j>15</j><k>007</k><l>1 2</l></n>
DOC_NUM ==
  <<"<","n",">","<","i",">","<","/","i",">","<","j",">","1","5","<","/",
    "j",">","<","k",">","0","0","7","<","/","k",">","<","l",">","1"," ",
    "2","<","/","l",">","<","/","n",">">>

\* nested deeper than the first capacity of the path-length stack
DOC_DEEP ==
  <<"<","a",">","<","a",">","<","a",">","<","a",">","<","a",">",
    "<","a",">","<","a",">","<","a",">","<","a",">","<","b","/",">",
    "<","/","a",">","<","/","a",">","<","/","a",">","<","/","a",">",
    "<","/","a",">","<","/","a",">","<","/","a",">","<","/","a",">",
    "<","/","a",">">>

\* a number with a sign
DOC_NEG == <<"<","e",">","-","1","<","/","e",">">>

RdInputs ==
  {DOC_SCAN, DOC_BAD, DOC_TREE, DOC_NS, DOC_NUM, DOC_DEEP, DOC_NEG}

\* substitution rules: (uri pattern, prefix), in declaration order
RULES ==
  <<[uri |-> <<"u","r","n",":","x",":","*">>, prefix |-> <<"s","c","a","n">>],
    [uri |-> <<"u","1">>, prefix |-> <<"s">>],
    [uri |-> <<"u","*">>, prefix |-> <<"t">>]>>

RuleSets == {None, Some(RULES)}

\* the floors handed to xml_rd_deep_next are 0..MaxFloor
MaxFloor == 2

\* the writer's inputs
ROOT == <<"r","o","o","t">>

WrNs == {<<>>, <<[prefix |-> <<"s">>, uri |-> <<"u","1">>]>>}

\* the text <a&b>"' of the escaping scenario
SPECIAL == <<"<","a","&","b",">","\"","'">>

ATTR_PLAIN == <<[name |-> <<"k">>, value |-> <<"v">>]>>

ATTR_SPECIAL == <<[name |-> <<"k">>, value |-> <<"'","&",">">>]>>

WrAttrs == {None, Some(ATTR_PLAIN)}

WrTexts == {[name |-> <<"b">>, value |-> <<"x">>],
            [name |-> <<"c">>, value |-> <<"y">>],
            [name |-> <<"b">>, value |-> SPECIAL]}

\* a writer holds at most MaxWrNodes nodes, the root included
MaxWrNodes == 4

\* the round trip writes at most MaxRtLeaves numbers
MaxRtLeaves == 1

(***************************************************************************)
(* The state: what the caller of the module holds                          *)
(***************************************************************************)
VARIABLES
  input,     \* the XML text handed to xml_rd_begin and xml_format
  rd,        \* the xml_rd handle: None for NULL, else the struct
  rd_err,    \* xml_rd_begin's result: None before the call, Some(TRUE)
             \* for an error, Some(FALSE) for success
  word,      \* the SANE_Word handed to xml_rd_node_value_uint: None
             \* while nothing was stored in it
  uint_err,  \* xml_rd_node_value_uint's last result, as rd_err
  uint_of,   \* what the last xml_rd_node_value_uint call worked on: the
             \* node's text (None at the end) and the word as it was
  panic,     \* a log_assert has ended the process
  sink,      \* what xml_format has written to its FILE
  fmt_ret,   \* xml_format's result: None before the call
  trav,      \* the nodes a run of xml_rd_deep_next calls with one floor,
             \* started right after xml_rd_begin, has stopped on
  seen,      \* the namespace URIs of the nodes the cursor has stopped on,
             \* each with the prefix the reader reported for the node
  wr,        \* the xml_wr handle: None before begin and after finish
  out,       \* the string xml_wr_finish returned: None before
  freed,     \* the nodes xml_wr_finish freed, in order
  made,      \* the numbers handed to xml_wr_add_uint, in order
  calls,     \* how many xml_wr_enter and xml_wr_leave calls returned
  dn         \* the xml_rd_deep_next call in progress and the run of calls
             \* it belongs to

vars == <<input, rd, rd_err, word, uint_err, uint_of, panic, sink, fmt_ret,
          trav, seen, wr, out, freed, made, calls, dn>>

rdVars == <<rd, rd_err, word, uint_err, uint_of, trav, seen, dn>>
fmtVars == <<sink, fmt_ret>>
wrVars == <<wr, out, freed, made, calls>>

TravOff == [floor |-> None, visited |-> <<>>]

\* no xml_rd_deep_next call was made yet
DnOff == [pc |-> "idle", floor |-> None, from |-> None, aligned |-> FALSE]

InitCommon ==
  /\ rd = None /\ rd_err = None /\ word = None /\ uint_err = None
  /\ uint_of = None
  /\ panic = FALSE /\ sink = <<>> /\ fmt_ret = None /\ trav = TravOff
  /\ seen = {}
  /\ wr = None /\ out = None /\ freed = <<>> /\ made = <<>>
  /\ calls = [enter |-> 0, leave |-> 0]
  /\ dn = DnOff

Init == input \in RdInputs /\ InitCommon

(***************************************************************************)
(* Reader operations                                                       *)
(***************************************************************************)
RdOpen == ~panic /\ ~IsNone(rd)

\* the prefix part of xml_rd_node_name, the colon included: what stands
\* before the node's local name
ReportedPrefix(xml) ==
  With(Get(xml_rd_node_name(xml)), LAMBDA nm :
    SubSeq(nm, 1, Len(nm) - Len(xml.doc[xml.node].name)))

\* the entry of seen for the node the cursor is on
Report(xml) ==
  IF xml.node # NULL /\ ~IsNone(xml.doc[xml.node].ns)
  THEN {[node |-> xml.node, uri |-> Get(xml.doc[xml.node].ns).href,
         prefix |-> ReportedPrefix(xml)]}
  ELSE {}

RdBegin(text, ns) ==
  /\ ~panic /\ IsNone(rd) /\ IsNone(rd_err)
  /\ \E r \in {xml_rd_begin(text, ns)} :
       /\ rd' = r.xml
       /\ rd_err' = Some(r.err)
       /\ trav' = IF r.err THEN TravOff
                  ELSE [floor |-> None, visited |-> <<Get(r.xml).node>>]
       /\ seen' = IF r.err THEN {} ELSE Report(Get(r.xml))
  /\ UNCHANGED <<input, dn, word, uint_err, uint_of, panic, fmtVars, wrVars>>

RdMove(xml) ==
  /\ rd' = Some(xml)
  /\ trav' = TravOff
  /\ seen' = seen \cup Report(xml)
  /\ UNCHANGED <<input, dn, rd_err, word, uint_err, uint_of, panic, fmtVars,
                 wrVars>>

RdNext == RdOpen /\ \E xml \in {xml_rd_next(Get(rd))} : RdMove(xml)

RdEnter == RdOpen /\ \E xml \in {xml_rd_enter(Get(rd))} : RdMove(xml)

RdLeave == RdOpen /\ \E xml \in {xml_rd_leave(Get(rd))} : RdMove(xml)

RdDeepNext(depth) ==
  /\ RdOpen
  /\ \E xml \in {xml_rd_deep_next(Get(rd), depth)} :
       /\ rd' = Some(xml)
       /\ trav' = IF trav.visited # <<>> /\ trav.floor \in {None, Some(depth)}
                  THEN IF xml_rd_end(Get(rd)) THEN trav
                       ELSE [floor |-> Some(depth),
                             visited |-> Append(trav.visited, xml.node)]
                  ELSE TravOff
       /\ seen' = seen \cup Report(xml)
  /\ UNCHANGED <<input, dn, rd_err, word, uint_err, uint_of, panic, fmtVars,
                 wrVars>>

RdValue ==
  /\ RdOpen
  /\ rd' = Some(xml_rd_node_value(Get(rd)).xml)
  /\ UNCHANGED <<input, dn, rd_err, word, uint_err, uint_of, panic, trav, seen,
                 fmtVars, wrVars>>

RdValueUint ==
  /\ RdOpen
  /\ \E r \in {xml_rd_node_value_uint(Get(rd), word)} :
       /\ rd' = Some(r.xml)
       /\ word' = r.val
       /\ uint_err' = IF r.panic THEN uint_err ELSE Some(r.err)
       /\ uint_of' = Some([node |-> r.xml.node, text |-> r.xml.text,
                            word |-> word])
       /\ panic' = r.panic
  /\ UNCHANGED <<input, dn, rd_err, trav, seen, fmtVars, wrVars>>

\* xml_rd_finish frees the struct and clears the handle
RdFinish ==
  /\ RdOpen
  /\ rd' = None
  /\ trav' = TravOff
  /\ seen' = {}
  /\ UNCHANGED <<input, dn, rd_err, word, uint_err, uint_of, panic, fmtVars,
                 wrVars>>

Format(dump_ok, io) ==
  /\ ~panic /\ IsNone(fmt_ret)
  /\ \E r \in {xml_format(sink, input, dump_ok, io)} :
       /\ sink' = r.fp
       /\ fmt_ret' = Some(r.ret)
  /\ UNCHANGED <<input, rdVars, panic, wrVars>>

Next ==
  \/ \E ns \in RuleSets : RdBegin(input, ns)
  \/ RdNext
  \/ RdEnter
  \/ RdLeave
  \/ \E depth \in 0..MaxFloor : RdDeepNext(depth)
  \/ RdValue
  \/ RdValueUint
  \/ RdFinish

Spec == Init /\ [][Next]_vars

\* xml_format and the reader's begin and finish on one input
NextFmt ==
  \/ \E ns \in RuleSets : RdBegin(input, ns)
  \/ RdNext
  \/ RdFinish
  \/ \E dump_ok \in BOOLEAN, io \in FwriteOutcomes : Format(dump_ok, io)

SpecFmt == Init /\ [][NextFmt]_vars

\* xml_rd_deep_next step by step: the call enters the node, the loop
\* leaves and moves on while its condition holds, then the call returns.
\* A run is the calls with one floor; it is aligned when its first call
\* found the cursor on an element at the depth of the floor.
DnCall(depth) ==
  /\ RdOpen
  /\ dn.pc = "idle"
  /\ IsNone(dn.floor) \/ dn.floor = Some(depth)
  /\ rd' = Some(xml_rd_enter(Get(rd)))
  /\ dn' = [pc |-> "loop", floor |-> Some(depth), from |-> rd,
            aligned |-> IF IsNone(dn.floor)
                        THEN /\ ~xml_rd_end(Get(rd))
                             /\ xml_rd_depth(Get(rd)) = depth
                        ELSE dn.aligned]
  /\ UNCHANGED <<input, rd_err, word, uint_err, uint_of, panic, trav, seen,
                 fmtVars, wrVars>>

\* the condition of the while loop
DnCond ==
  xml_rd_end(Get(rd)) /\ xml_rd_depth(Get(rd)) > Get(dn.floor) + 1

\* a loop body that moves on without leaving the nested node
DnLoop_no_leave ==
  /\ RdOpen
  /\ dn.pc = "loop"
  /\ DnCond
  /\ rd' = Some(xml_rd_next(Get(rd)))
  /\ UNCHANGED <<input, dn, rd_err, word, uint_err, uint_of, panic, trav,
                 seen, fmtVars, wrVars>>

DnLoop ==
  /\ RdOpen
  /\ dn.pc = "loop"
  /\ DnCond
  /\ rd' = Some(xml_rd_next(xml_rd_leave(Get(rd))))
  /\ UNCHANGED <<input, dn, rd_err, word, uint_err, uint_of, panic, trav,
                 seen, fmtVars, wrVars>>

DnReturn ==
  /\ RdOpen
  /\ dn.pc = "loop"
  /\ ~DnCond
  /\ dn' = [dn EXCEPT !.pc = "idle"]
  /\ UNCHANGED <<input, rd, rd_err, word, uint_err, uint_of, panic, trav,
                 seen, fmtVars, wrVars>>

\* the run has come to the end of the siblings one level below its floor
DnEnded ==
  /\ RdOpen
  /\ dn.pc = "idle"
  /\ ~IsNone(dn.floor)
  /\ xml_rd_end(Get(rd))
  /\ xml_rd_depth(Get(rd)) = Get(dn.floor) + 1

\* the caller's moves before the run
DnSeek == dn = DnOff /\ (RdEnter \/ RdNext)

\* the caller of a run calls again until the run has ended
DnAgain == ~IsNone(dn.floor) /\ \E depth \in 0..MaxFloor : DnCall(depth)

DnFinish == (dn = DnOff \/ DnEnded) /\ RdFinish

NextDN ==
  \/ \E ns \in RuleSets : RdBegin(input, ns)
  \/ DnSeek
  \/ \E depth \in 0..MaxFloor : DnCall(depth)
  \/ DnLoop
  \/ DnReturn
  \/ DnFinish

\* a call in progress goes on, and the caller of a run keeps calling
SpecDN ==
  /\ Init
  /\ [][NextDN]_vars
  /\ WF_vars(DnLoop)
  /\ WF_vars(DnReturn)
  /\ WF_vars(DnAgain)

(***************************************************************************)
(* Properties of the reader                                                *)
(***************************************************************************)
\* what the caller can see of the cursor: depth, node, name and path
Position(xml) ==
  <<xml_rd_depth(xml), xml.node, xml_rd_node_name(xml), xml_rd_node_path(xml)>>

EnterLeaveRestores(xml) ==
  Position(xml_rd_leave(xml_rd_enter(xml))) = Position(xml)

\* the cursor has not moved since xml_rd_begin
JustBegun == RdOpen /\ IsNone(trav.floor) /\ trav.visited # <<>>

BeginAtDepth0 == JustBegun => xml_rd_depth(Get(rd)) = 0

\* C1 as stated: right after xml_rd_begin the depth is 0, and in every
\* reachable reader state xml_rd_enter followed by xml_rd_leave restores
\* the depth, the current node, the name and the path.
C1_EnterLeaveEverywhere ==
  /\ BeginAtDepth0
  /\ RdOpen => EnterLeaveRestores(Get(rd))

\* C1 amended: right after xml_rd_begin the depth is 0, and in every
\* reachable reader state where the cursor is on a node or the depth is 0,
\* xml_rd_enter followed by xml_rd_leave restores the depth, the current
\* node, the name and the path.
C1_EnterLeaveOnNode ==
  /\ BeginAtDepth0
  /\ RdOpen /\ (~xml_rd_end(Get(rd)) \/ xml_rd_depth(Get(rd)) = 0)
       => EnterLeaveRestores(Get(rd))

\* the cursor is on a nested node that has a child element to enter
C1_Witness ==
  /\ RdOpen
  /\ xml_rd_depth(Get(rd)) > 0
  /\ ~xml_rd_end(Get(rd))
  /\ ~xml_rd_end(xml_rd_enter(Get(rd)))

\* the element nodes from the document's root element down to n
RECURSIVE Chain(_, _)
Chain(doc, n) ==
  IF n = NULL \/ doc[n].type # "element" THEN <<>>
  ELSE Append(Chain(doc, doc[n].parent), n)

\* the rules of the list that match uri, by position
Matching(rules, uri) ==
  {i \in 1..Len(rules) : fnmatch(rules[i].uri, uri) = 0}

\* the prefix substitution gives: that of the first rule matching href,
\* the document's own prefix without rules or without a match
SubstPrefix(rules, prefix, href) ==
  IF IsNone(rules) \/ Matching(Get(rules), href) = {} THEN prefix
  ELSE Some(Get(rules)[CHOOSE i \in Matching(Get(rules), href) :
                         \A j \in Matching(Get(rules), href) : i <= j].prefix)

\* the name the reader reports with the cursor on node n
NameOf(xml, n) ==
  LET e == xml.doc[n]
      p == IF IsNone(e.ns) THEN None
           ELSE SubstPrefix(xml.subst_rules, Get(e.ns).prefix, Get(e.ns).href)
  IN (IF IsNone(p) THEN <<>> ELSE Get(p) \o <<":">>) \o e.name

RECURSIVE JoinSlash(_)
JoinSlash(names) ==
  IF Len(names) = 0 THEN <<>>
  ELSE IF Len(names) = 1 THEN names[1]
  ELSE names[1] \o <<"/">> \o JoinSlash(Tail(names))

\* C2: whenever the cursor is on a node, xml_rd_node_path is the
\* '/'-joined sequence of the substituted names of the nodes from the
\* document's root element down to the current node, the last of them
\* being xml_rd_node_name.
C2_PathIsJoinedNames ==
  RdOpen /\ ~xml_rd_end(Get(rd)) =>
    LET xml == Get(rd)
        ch  == Chain(xml.doc, xml.node)
    IN /\ xml_rd_node_path(xml)
            = Some(JoinSlash([i \in 1..Len(ch) |-> NameOf(xml, ch[i])]))
       /\ xml_rd_node_name(xml) = Some(NameOf(xml, xml.node))

\* the cursor is two levels down on a node whose prefix a rule replaced
C2_Witness ==
  /\ RdOpen
  /\ ~xml_rd_end(Get(rd))
  /\ xml_rd_depth(Get(rd)) >= 2
  /\ ~IsNone(Get(rd).subst_rules)
  /\ LET e == Get(rd).doc[Get(rd).node]
     IN /\ ~IsNone(e.ns)
        /\ Matching(Get(Get(rd).subst_rules), Get(e.ns).href) # {}
        /\ e.qname # NameOf(Get(rd), Get(rd).node)

\* C3 as stated: any two nodes with the same namespace URI are reported
\* with the same prefix, whether or not a substitution rule matches.
C3_SameUriSamePrefix ==
  \A a, b \in seen : a.uri = b.uri => a.prefix = b.prefix

\* C3 amended: within one reader, any two element nodes whose namespace
\* URI is the same and is matched by a rule of the reader's substitution
\* list are reported with the same prefix, whatever prefixes the document
\* uses for them and in whatever order they are visited.
C3_SameMatchedUriSamePrefix ==
  ~IsNone(rd) =>
    \A a, b \in seen :
      /\ a.uri = b.uri
      /\ ~IsNone(Get(rd).subst_rules)
      /\ Matching(Get(Get(rd).subst_rules), a.uri) # {}
      => a.prefix = b.prefix

\* two nodes of one URI that a rule matches, written with different
\* prefixes in the document, have both been reported
C3_Witness ==
  /\ ~IsNone(rd)
  /\ ~IsNone(Get(rd).subst_rules)
  /\ \E a, b \in seen :
       /\ a.node # b.node
       /\ a.uri = b.uri
       /\ Matching(Get(Get(rd).subst_rules), a.uri) # {}
       /\ Get(rd).doc[a.node].ns # Get(rd).doc[b.node].ns

\* the element nodes of the sibling list that starts at n, each followed
\* by the element nodes below it
RECURSIVE PreOrder(_, _)
PreOrder(doc, n) ==
  IF n = NULL THEN <<>>
  ELSE (IF doc[n].type = "element"
        THEN <<n>> \o PreOrder(doc, doc[n].children)
        ELSE <<>>) \o PreOrder(doc, doc[n].next)

IsPrefix(a, b) == Len(a) <= Len(b) /\ SubSeq(b, 1, Len(a)) = a

\* the nodes the run has stopped on: the end of the run is no node
Stops == SelectSeq(trav.visited, LAMBDA n : n # NULL)

\* a run of xml_rd_deep_next calls from the root element, all with a floor
\* of the set floors, is under way or has ended
InRun(floors) ==
  /\ RdOpen
  /\ trav.visited # <<>>
  /\ ~IsNone(trav.floor)
  /\ Get(trav.floor) \in floors

\* the run stops on the elements in document order, each once, has
\* stopped on all of them when it ends, and stays at or below its floor
RunInOrder(floors) ==
  InRun(floors) =>
    LET all == PreOrder(Get(rd).doc, Get(rd).doc[1].children)
    IN /\ IsPrefix(Stops, all)
       /\ xml_rd_end(Get(rd)) => Stops = all
       /\ xml_rd_depth(Get(rd)) >= Get(trav.floor)

\* C4 as stated: from the root element, repeated xml_rd_deep_next(floor)
\* until the end stops on every element once, in document order, at a
\* depth never less than floor, whatever the floor.
C4_DeepNextAnyFloor == RunInOrder(0..MaxFloor)

\* C4 amended: from the root element, repeated xml_rd_deep_next(0) until
\* xml_rd_end is true stops on every element node of the document exactly
\* once, in document order, and xml_rd_depth is never less than 0.
C4_DeepNextFloor0 == RunInOrder({0})

\* a run with floor 0 has ended after it came back up from a nested node
C4_Witness ==
  /\ InRun({0})
  /\ xml_rd_end(Get(rd))
  /\ Len(Stops) >= 5

AllDigits(s) == s # <<>> /\ \A i \in 1..Len(s) : s[i] \in DigitSet

\* the number a string of digits denotes; past WORD_MAX it is only known
\* to be past it
RECURSIVE DecValue(_)
DecValue(s) ==
  IF s = <<>> THEN 0
  ELSE LET v == DecValue(SubSeq(s, 1, Len(s) - 1)) * 10 + DigitVal(s[Len(s)])
       IN IF v > WORD_MAX THEN WORD_MAX + 1 ELSE v

\* C6: xml_rd_node_value_uint returns a value error and stores nothing
\* whenever the trimmed text of the node is absent, is not made of decimal
\* digits only (a sign in front included) or denotes a number past the
\* target word; otherwise it succeeds and stores the number.
C6_ValueUintDigitsOnly ==
  ~IsNone(uint_of) =>
    LET c == Get(uint_of) IN
    IF /\ ~IsNone(c.text)
       /\ AllDigits(Get(c.text))
       /\ DecValue(Get(c.text)) <= WORD_MAX
    THEN ~panic /\ uint_err = Some(FALSE)
         /\ word = Some(DecValue(Get(c.text)))
    ELSE ~panic /\ uint_err = Some(TRUE) /\ word = c.word

\* C10: when the parser rejects the input, xml_rd_begin returns an error
\* and leaves a null handle, and xml_format writes nothing and returns
\* false; xml_format returns true only if it wrote the formatted output.
C10_RejectedInputNoOutput ==
  /\ ~xmlParseMemory(input).ok =>
       /\ rd_err \in {None, Some(TRUE)}
       /\ IsNone(rd)
       /\ fmt_ret \in {None, Some(FALSE)}
       /\ sink = <<>>
  /\ fmt_ret = Some(TRUE) =>
       /\ sink # <<>>
       /\ sink = xmlDocDumpFormatMemory(xmlParseMemory(input).heap, TRUE)

(***************************************************************************)
(* Writer operations                                                       *)
(***************************************************************************)
WrOpen == ~panic /\ ~IsNone(wr)

WrRoom == Len(Get(wr).heap) < MaxWrNodes

WrBegin(root, ns) ==
  /\ ~panic /\ IsNone(wr) /\ IsNone(out)
  /\ wr' = Some(xml_wr_begin(root, ns))
  /\ UNCHANGED <<input, rdVars, panic, fmtVars, out, freed, made, calls>>

WrSet(xml) ==
  /\ wr' = Some(xml)
  /\ UNCHANGED <<input, rdVars, panic, fmtVars, out, freed, made, calls>>

WrAddText(name, value) ==
  WrOpen /\ WrRoom /\ WrSet(xml_wr_add_text(Get(wr), name, value))

WrAddTextAttr(name, value, attrs) ==
  WrOpen /\ WrRoom /\ WrSet(xml_wr_add_text_attr(Get(wr), name, value, attrs))

WrAddUint(name, value) ==
  /\ WrOpen /\ WrRoom
  /\ wr' = Some(xml_wr_add_uint(Get(wr), name, value))
  /\ made' = Append(made, value)
  /\ UNCHANGED <<input, rdVars, panic, fmtVars, out, freed, calls>>

WrAddBool(name, value) ==
  WrOpen /\ WrRoom /\ WrSet(xml_wr_add_bool(Get(wr), name, value))

WrEnter(name, attrs) ==
  /\ WrOpen /\ WrRoom
  /\ wr' = Some(xml_wr_enter_attr(Get(wr), name, attrs))
  /\ calls' = [calls EXCEPT !.enter = @ + 1]
  /\ UNCHANGED <<input, rdVars, panic, fmtVars, out, freed, made>>

WrLeave ==
  /\ WrOpen
  /\ \E r \in {xml_wr_leave(Get(wr))} :
       /\ wr' = Some(r.xml)
       /\ panic' = r.panic
       /\ calls' = IF r.panic THEN calls ELSE [calls EXCEPT !.leave = @ + 1]
  /\ UNCHANGED <<input, rdVars, fmtVars, out, freed, made>>

\* finish frees the writer: the handle is dead afterwards
WrFinish(compact) ==
  /\ WrOpen
  /\ \E r \in {xml_wr_finish_internal(Get(wr), compact)} :
       /\ out' = Some(r.str)
       /\ freed' = r.freed
  /\ wr' = None
  /\ UNCHANGED <<input, rdVars, panic, fmtVars, made, calls>>

InitWr == input = <<>> /\ InitCommon

NextWr ==
  \/ \E ns \in WrNs : WrBegin(ROOT, ns)
  \/ \E t \in WrTexts : WrAddText(t.name, t.value)
  \/ WrAddTextAttr(<<"c">>, <<"x">>, Some(ATTR_SPECIAL))
  \/ WrAddBool(<<"f">>, TRUE)
  \/ \E attrs \in WrAttrs : WrEnter(<<"a">>, attrs)
  \/ WrLeave
  \/ \E compact \in BOOLEAN : WrFinish(compact)

SpecWr == InitWr /\ [][NextWr]_vars

(***************************************************************************)
(* Round trip: numbers are written, the document is rendered, and the      *)
(* rendered text is read back                                              *)
(***************************************************************************)
RtRoom == Len(made) < MaxRtLeaves

NextRT ==
  \/ WrBegin(ROOT, <<>>)
  \/ \E v \in 0..UINT_MAX : RtRoom /\ WrAddUint(<<"n">>, v)
  \/ \E compact \in BOOLEAN : WrFinish(compact)
  \/ ~IsNone(out) /\ RdBegin(Get(out), None)
  \/ RdEnter
  \/ RdNext
  \/ RdValueUint

SpecRT == InitWr /\ [][NextRT]_vars

(***************************************************************************)
(* Properties of the writer and of the round trip                          *)
(***************************************************************************)
\* the nodes added to node n, in the order they were added: nodes get
\* their place in the heap when they are made
WrChildren(heap, n) ==
  LET ids == {i \in 1..Len(heap) : heap[i].parent = n}
      Rank(i) == Cardinality({j \in ids : j < i})
  IN [k \in 1..Cardinality(ids) |-> CHOOSE i \in ids : Rank(i) = k - 1]

\* the tree the calls have built: names, leaf values and children in the
\* order of the calls
RECURSIVE WrShape(_, _)
WrShape(heap, n) ==
  [name     |-> heap[n].name,
   value    |-> IF IsNone(heap[n].value) THEN <<>> ELSE Get(heap[n].value),
   children |-> LET ch == WrChildren(heap, n)
                IN [k \in 1..Len(ch) |-> WrShape(heap, ch[k])]]

\* the tree a document holds: names, the text of the elements without
\* child elements, and the child elements in document order
RECURSIVE DocShape(_, _)
DocShape(doc, n) ==
  LET ch == SelectSeq(PreOrder(doc, doc[n].children),
                      LAMBDA i : doc[i].parent = n)
  IN [name     |-> doc[n].qname,
      value    |-> IF ch = <<>> THEN xmlNodeGetContent(doc, n) ELSE <<>>,
      children |-> [k \in 1..Len(ch) |-> DocShape(doc, ch[k])]]

\* the tree of the scenario: begin(root), enter(a), add(b, x), leave,
\* add(c, y)
SCENARIO_TREE ==
  [name |-> ROOT, value |-> <<>>, children |->
     <<[name |-> <<"a">>, value |-> <<>>, children |->
          <<[name |-> <<"b">>, value |-> <<"x">>, children |-> <<>>]>>],
       [name |-> <<"c">>, value |-> <<"y">>, children |-> <<>>]>>]

SCENARIO_TEXT ==
  XMLDECL \o
  <<"<","r","o","o","t",">","<","a",">","<","b",">","x","<","/","b",">",
    "<","/","a",">","<","c",">","y","<","/","c",">","<","/","r","o","o",
    "t",">">>

NoAttrs(heap) == \A i \in 1..Len(heap) : IsNone(heap[i].attrs)

\* C7: whatever the calls after xml_wr_begin, the document finish produces
\* (read back wherever it is well-formed) lists the children of every
\* element in the order they were added, and the calls of the scenario
\* give <root><a><b>x</b></a><c>y</c></root> after the XML declaration.
C7_ChildrenInInsertionOrder ==
  WrOpen =>
    /\ \A compact \in BOOLEAN :
         With(xmlParseMemory(xml_wr_finish_internal(Get(wr), compact).str),
              LAMBDA doc :
                /\ NoAttrs(Get(wr).heap) => doc.ok
                /\ doc.ok => DocShape(doc.heap, xmlDocGetRootElement(doc.heap))
                               = WrShape(Get(wr).heap, Get(wr).root))
    /\ (/\ WrShape(Get(wr).heap, Get(wr).root) = SCENARIO_TREE
        /\ NoAttrs(Get(wr).heap)
        /\ Get(wr).ns = <<>>)
         => xml_wr_finish_compact(Get(wr)).str = SCENARIO_TEXT

\* the calls of the scenario have been made
C7_Witness ==
  /\ WrOpen
  /\ WrShape(Get(wr).heap, Get(wr).root) = SCENARIO_TREE
  /\ NoAttrs(Get(wr).heap)
  /\ Get(wr).ns = <<>>
  /\ Get(wr).current = Get(wr).root
  /\ calls = [enter |-> 1, leave |-> 1]

\* the tree a document holds, with all an element carries: name,
\* namespace declarations, attributes, the text of the elements without
\* child elements, and the child elements in document order
RECURSIVE DocTree(_, _)
DocTree(doc, n) ==
  LET ch == SelectSeq(PreOrder(doc, doc[n].children),
                      LAMBDA i : doc[i].parent = n)
  IN [name     |-> doc[n].qname,
      nsDef    |-> doc[n].nsDef,
      attrs    |-> doc[n].attrs,
      value    |-> IF ch = <<>> THEN xmlNodeGetContent(doc, n) ELSE <<>>,
      children |-> [k \in 1..Len(ch) |-> DocTree(doc, ch[k])]]

\* a text without its spaces, tabs and line ends
Unspaced(str) == SelectSeq(str, LAMBDA c : c \notin Space)

\* C11: for any writer tree the compact and the pretty serialization
\* describe the same tree (element names, order, nesting, attributes and
\* text values) and differ only in inserted whitespace.
C11_CompactAndPrettySameTree ==
  WrOpen =>
    With(xml_wr_finish_compact(Get(wr)).str, LAMBDA c :
    With(xml_wr_finish(Get(wr)).str, LAMBDA f :
    With(xmlParseMemory(c), LAMBDA cd :
    With(xmlParseMemory(f), LAMBDA fd :
      /\ Unspaced(c) = Unspaced(f)
      /\ Len(c) <= Len(f)
      /\ cd.ok = fd.ok
      /\ cd.ok => DocTree(cd.heap, xmlDocGetRootElement(cd.heap))
                    = DocTree(fd.heap, xmlDocGetRootElement(fd.heap))))))

\* a tree with an attribute, a nested element and two children of one
\* parent that differ, whose serializations are well-formed
C11_Witness ==
  /\ WrOpen
  /\ calls.leave > 0
  /\ \E i \in 1..Len(Get(wr).heap) : ~IsNone(Get(wr).heap[i].attrs)
  /\ \E i, j \in 1..Len(Get(wr).heap) :
       /\ i # j
       /\ Get(wr).heap[i].parent = Get(wr).heap[j].parent
       /\ Get(wr).heap[i].name # Get(wr).heap[j].name
  /\ xmlParseMemory(xml_wr_finish(Get(wr)).str).ok

\* a value with each of & < > " ' replaced by its entity
EntityEscape(v) ==
  Concat([i \in 1..Len(v) |->
            CASE v[i] = "&"  -> AMP
              [] v[i] = "<"  -> LT
              [] v[i] = ">"  -> GT
              [] v[i] = "\"" -> QUOT
              [] v[i] = "'"  -> APOS
              [] OTHER       -> <<v[i]>>])

Contains(s, sub) ==
  \E i \in 1..(Len(s) - Len(sub) + 1) : SubSeq(s, i, i + Len(sub) - 1) = sub

\* C8: in the serialized document every text value and every attribute
\* value stands with each of & < > " ' replaced by its entity, so that the
\* document is well-formed and reading it back yields the values.
C8_ValuesEscaped ==
  WrOpen =>
    \A compact \in BOOLEAN :
      With(xml_wr_finish_internal(Get(wr), compact).str, LAMBDA str :
        /\ \A i \in 1..Len(Get(wr).heap) :
             LET n == Get(wr).heap[i] IN
             /\ ~IsNone(n.value) =>
                  Contains(str, <<">">> \o EntityEscape(Get(n.value))
                                \o <<"<", "/">> \o n.name \o <<">">>)
             /\ ~IsNone(n.attrs) =>
                  \A k \in 1..Len(Get(n.attrs)) :
                    Contains(str, <<" ">> \o Get(n.attrs)[k].name
                                  \o <<"=", "\"">>
                                  \o EntityEscape(Get(n.attrs)[k].value)
                                  \o <<"\"">>)
        /\ xmlParseMemory(str).ok)

\* how many xml_wr_enter calls down from the root node n is
RECURSIVE WrDepth(_, _)
WrDepth(heap, n) ==
  IF heap[n].parent = NULL THEN 0 ELSE 1 + WrDepth(heap, heap[n].parent)

\* where the opening tags and the closing tags of a text start
OpenTags(str) ==
  {p \in 1..(Len(str) - 1) : str[p] = "<" /\ str[p + 1] \notin {"/", "?"}}

CloseTags(str) ==
  {p \in 1..(Len(str) - 1) : str[p] = "<" /\ str[p + 1] = "/"}

\* how deep the tag that starts at p is nested: the elements open there
DepthAt(str, p) ==
  Cardinality({q \in OpenTags(str) : q < p})
    - Cardinality({q \in CloseTags(str) : q < p})

\* where the tag that starts at p ends
TagEnd(str, p) == CHOOSE q \in p..Len(str) :
                    /\ str[q] = ">"
                    /\ \A k \in p..(q - 1) : str[k] # ">"

\* every opening tag starts its line, after two spaces for each level
OpeningTagsIndented(str) ==
  \A p \in OpenTags(str) :
    LET d == DepthAt(str, p) IN
    /\ p - 2 * d - 1 >= 1
    /\ SubSeq(str, p - 2 * d - 1, p - 1) = <<"\n">> \o [i \in 1..(2 * d) |-> " "]

\* a text without its line ends and the spaces that follow them
Unindented(str) ==
  LET Layout(p) ==
        \/ str[p] = "\n"
        \/ \E j \in 1..(p - 1) :
             str[j] = "\n" /\ \A k \in (j + 1)..p : str[k] = " "
      keep == SelectSeq([p \in 1..Len(str) |-> p], LAMBDA p : ~Layout(p))
  IN [k \in 1..Len(keep) |-> str[keep[k]]]

\* the compact text is the pretty one without line ends and indentation,
\* and holds no line end and no space behind a tag
CompactHasNoLayout(c, f) ==
  /\ c = Unindented(f)
  /\ \A p \in 1..Len(c) : c[p] # "\n"
  /\ \A p \in OpenTags(c) \cup CloseTags(c) : p = 1 \/ c[p - 1] # " "

\* the closing tag that starts at p is that of a nested element without a
\* sibling behind it: the next tag is a closing tag too
LastNestedCloser(str, p) ==
  /\ DepthAt(str, p) > 1
  /\ \E q \in CloseTags(str) :
       /\ q > p
       /\ \A k \in OpenTags(str) \cup CloseTags(str) : k > p => q <= k

\* no value holds whitespace or a tag delimiter of its own
PlainValues(heap) ==
  \A i \in 1..Len(heap) :
    /\ ~IsNone(heap[i].value) =>
         \A k \in 1..Len(Get(heap[i].value)) :
           Get(heap[i].value)[k] \notin (Space \cup {">"})
    /\ ~IsNone(heap[i].attrs) =>
         \A a \in 1..Len(Get(heap[i].attrs)) :
           \A k \in 1..Len(Get(heap[i].attrs)[a].value) :
             Get(heap[i].attrs)[a].value[k] \notin (Space \cup {">", "<"})

\* C12 as stated: the pretty format puts every opening tag on a line of
\* its own, indented two spaces a level, and a line end behind every
\* closing tag except those of nested elements without a sibling behind
\* them; the compact format adds no whitespace.
C12_LayoutNestedClosers ==
  WrOpen /\ PlainValues(Get(wr).heap) =>
    With(xml_wr_finish(Get(wr)).str, LAMBDA f :
      /\ OpeningTagsIndented(f)
      /\ \A p \in CloseTags(f) :
           LET q == TagEnd(f, p) IN
           IF LastNestedCloser(f, p)
           THEN q = Len(f) \/ f[q + 1] # "\n"
           ELSE q < Len(f) /\ f[q + 1] = "\n"
      /\ CompactHasNoLayout(xml_wr_finish_compact(Get(wr)).str, f))

\* C12 amended: with compact=false finish emits each element's opening
\* tag on its own line indented by two spaces per depth level, and a
\* newline after every closing tag except the closing tag of a root
\* element that has children, which ends the text; with compact=true it
\* emits the declaration and the tags with no added whitespace at all.
C12_LayoutRootCloser ==
  WrOpen /\ PlainValues(Get(wr).heap) =>
    With(xml_wr_finish(Get(wr)).str, LAMBDA f :
      /\ OpeningTagsIndented(f)
      /\ \A p \in CloseTags(f) :
           LET q == TagEnd(f, p) IN
           IF DepthAt(f, p) = 1 /\ Get(wr).heap[Get(wr).root].children # NULL
           THEN q = Len(f)
           ELSE q < Len(f) /\ f[q + 1] = "\n"
      /\ CompactHasNoLayout(xml_wr_finish_compact(Get(wr)).str, f))

\* a tree with an element two levels down that is the last of its parent
C12_Witness ==
  /\ WrOpen
  /\ PlainValues(Get(wr).heap)
  /\ calls.leave > 0
  /\ \E i \in 1..Len(Get(wr).heap) : WrDepth(Get(wr).heap, i) >= 2
  /\ Len(Get(wr).heap) = MaxWrNodes

\* the sequence holds each of the nodes 1..n once
EachOnce(s, n) ==
  /\ Len(s) = n
  /\ \A k \in 1..n : \E i \in 1..n : s[i] = k

\* C13: whatever calls built the tree, balanced or not, the one finish
\* call frees every node made exactly once: none is left, none freed twice.
C13_FinishFreesEachNodeOnce ==
  /\ WrOpen =>
       \A compact \in BOOLEAN :
         EachOnce(xml_wr_finish_internal(Get(wr), compact).freed,
                  Len(Get(wr).heap))
  /\ ~IsNone(out) => EachOnce(freed, Len(freed))

\* finish has run on a full tree with an xml_wr_enter left open
C13_Witness ==
  /\ ~IsNone(out)
  /\ Len(freed) = MaxWrNodes
  /\ calls.enter > calls.leave
  /\ calls.leave > 0

\* C9: xml_wr_leave moves current to its parent when current is not the
\* root; called with current on the root, which is whenever the leaves
\* would outnumber the enters, it is a fatal assertion failure, and
\* current is never a null node.
C9_LeaveToParentOrAssert ==
  ~IsNone(wr) =>
    LET xml == Get(wr) IN
    /\ xml.current \in 1..Len(xml.heap)
    /\ WrDepth(xml.heap, xml.current) = calls.enter - calls.leave
    /\ (xml.current = xml.root) = (calls.enter = calls.leave)
    /\ panic => xml.current = xml.root
    /\ With(xml_wr_leave(xml), LAMBDA r :
         IF xml.current = xml.root
         THEN r.panic
         ELSE ~r.panic /\ r.xml.current = xml.heap[xml.current].parent)

\* a leave has come back to the root from a nested node, and the next
\* leave has ended the process
C9_Witness ==
  /\ ~IsNone(wr)
  /\ panic
  /\ calls.leave > 0

\* C5: for every unsigned int V, a leaf written with xml_wr_add_uint(name,
\* V) and read back from the finished document with
\* xml_rd_node_value_uint gives no error and exactly V.
C5_UintRoundTrip ==
  ~IsNone(rd) /\ ~IsNone(uint_of) =>
    LET doc    == Get(rd).doc
        leaves == PreOrder(doc, doc[xmlDocGetRootElement(doc)].children)
    IN \A k \in 1..Len(leaves) :
         leaves[k] = Get(uint_of).node =>
           ~panic /\ uint_err = Some(FALSE) /\ word = Some(made[k])

(***************************************************************************)
(* The reader's caches and its position                                    *)
(***************************************************************************)
\* no URI is in the cache twice, and every URI in it matches a rule
CacheSound(xml) ==
  /\ \A i, j \in 1..Len(xml.subst_cache) :
       xml.subst_cache[i].uri = xml.subst_cache[j].uri => i = j
  /\ \A i \in 1..Len(xml.subst_cache) :
       /\ ~IsNone(xml.subst_rules)
       /\ Matching(Get(xml.subst_rules), xml.subst_cache[i].uri) # {}

\* C14: the substitution cache never holds two entries with the same URI,
\* a URI that matches no rule never gets an entry, and an operation on the
\* cursor only appends to the cache: the entries it holds stay as they are.
C14_CacheGrowsByAppending ==
  /\ [](RdOpen => CacheSound(Get(rd)))
  /\ [][RdOpen /\ ~IsNone(rd')
          => IsPrefix(Get(rd).subst_cache, Get(rd').subst_cache)]_vars

\* the cache holds two URIs and a node with a URI no rule matches was seen
C14_Witness ==
  /\ RdOpen
  /\ Len(Get(rd).subst_cache) >= 2
  /\ \E a \in seen : Matching(Get(Get(rd).subst_rules), a.uri) = {}

\* the namespaces of the elements of the document
NsOf(doc) ==
  {Get(doc[n].ns) : n \in {i \in 1..Len(doc) : ~IsNone(doc[i].ns)}}

\* C15: the prefix a lookup returns does not depend on the cache: with
\* rules it is the prefix of the first rule, in declaration order, that
\* matches the URI, or the document's own prefix if none does; without
\* rules it is the document's own prefix; the lookup with the cache gives
\* what the scan of the rules with an empty cache gives.
C15_PrefixIndependentOfCache ==
  RdOpen =>
    \A ns \in NsOf(Get(rd).doc) :
      With(xml_rd_ns_subst_lookup(Get(rd), ns.prefix, ns.href).prefix,
           LAMBDA p :
        /\ p = SubstPrefix(Get(rd).subst_rules, ns.prefix, ns.href)
        /\ p = xml_rd_ns_subst_lookup([Get(rd) EXCEPT !.subst_cache = <<>>],
                                      ns.prefix, ns.href).prefix)

\* the cache holds a URI that two rules match, and the document has a
\* namespace in the cache, one not yet in it and one no rule matches
C15_Witness ==
  /\ RdOpen
  /\ \E i \in 1..Len(Get(rd).subst_cache) :
       Cardinality(Matching(Get(Get(rd).subst_rules),
                            Get(rd).subst_cache[i].uri)) >= 2
  /\ \E ns \in NsOf(Get(rd).doc) :
       /\ Matching(Get(Get(rd).subst_rules), ns.href) # {}
       /\ \A i \in 1..Len(Get(rd).subst_cache) :
            Get(rd).subst_cache[i].uri # ns.href
  /\ \E ns \in NsOf(Get(rd).doc) :
       Matching(Get(Get(rd).subst_rules), ns.href) = {}

\* the whitespace-trimmed text content of the node the cursor is on
TrimmedContent(xml) == g_strstrip(xmlNodeGetContent(xml.doc, xml.node))

\* C16: the cached text is absent or is the whitespace-trimmed content of
\* the node the cursor is on; an operation that changes the node (next,
\* enter, leave, deep_next) leaves the cache empty; xml_rd_node_value
\* gives the trimmed content of the current node, never that of a node
\* the cursor was on before, and gives none at the end of the siblings.
C16_TextCacheOfCurrentNode ==
  /\ [](RdOpen =>
          /\ IsNone(Get(rd).text)
               \/ /\ Get(rd).node # NULL
                  /\ Get(rd).text = Some(TrimmedContent(Get(rd)))
          /\ xml_rd_node_value(Get(rd)).s
               = IF xml_rd_end(Get(rd)) THEN None
                 ELSE Some(TrimmedContent(Get(rd))))
  /\ [][RdOpen /\ ~IsNone(rd')
          /\ (Get(rd').node # Get(rd).node \/ Get(rd').depth # Get(rd).depth)
          => IsNone(Get(rd').text)]_vars

\* the text of a node with whitespace around it is cached, one level down
C16_Witness ==
  /\ RdOpen
  /\ ~IsNone(Get(rd).text)
  /\ Get(Get(rd).text) # <<>>
  /\ Get(Get(rd).text) # xmlNodeGetContent(Get(rd).doc, Get(rd).node)
  /\ xml_rd_depth(Get(rd)) > 0

\* the path the reader reports with the cursor on node n
PathOf(xml, n) ==
  LET ch == Chain(xml.doc, n)
  IN JoinSlash([i \in 1..Len(ch) |-> NameOf(xml, ch[i])])

\* C17: for every d below the depth, slot d of the path-length stack is
\* the length of the path of the ancestor at depth d and its '/'; the
\* path cut to the slot below the depth is the parent's path and '/', and
\* at depth 0 nothing: the path is that, followed by the name of the
\* current node if there is one, also after next and after leave.
C17_PathlenStackOfAncestors ==
  RdOpen =>
    With(Get(rd), LAMBDA xml :
    With(IF xml.depth > 0 THEN Chain(xml.doc, xml.parent) ELSE <<>>,
         LAMBDA anc :
      /\ Len(anc) = xml.depth
      /\ xml.depth <= xml.pathlen_cap
      /\ Len(xml.pathlen) = xml.pathlen_cap
      /\ \A d \in 0..(xml.depth - 1) :
           xml.pathlen[d + 1] = Len(PathOf(xml, anc[d + 1])) + 1
      /\ LET base == IF xml.depth > 0
                     THEN PathOf(xml, xml.parent) \o <<"/">>
                     ELSE <<>>
         IN /\ base = g_string_truncate(
                        xml.path,
                        IF xml.depth > 0 THEN xml.pathlen[xml.depth] ELSE 0)
            /\ xml.path = IF xml.node = NULL THEN base
                          ELSE base \o NameOf(xml, xml.node)))

\* the cursor moved by next to a later sibling two levels down or deeper
C17_Witness ==
  /\ RdOpen
  /\ xml_rd_depth(Get(rd)) >= 2
  /\ ~xml_rd_end(Get(rd))
  /\ Get(rd).doc[Get(rd).parent].children # Get(rd).node

\* an aligned run of xml_rd_deep_next calls is under way
DnRunning == RdOpen /\ dn.aligned

\* C18: every xml_rd_deep_next(floor) call returns, whatever the floor and
\* the state; calls repeated from an element at depth floor lead to the
\* end of the siblings at depth floor + 1, with xml_rd_end true; a call
\* made there leaves the reader as it is.
C18_DeepNextRunEnds ==
  /\ (dn.pc = "loop") ~> (dn.pc = "idle")
  /\ DnRunning ~> (DnRunning /\ DnEnded)
  /\ [](DnEnded =>
          /\ xml_rd_deep_next(Get(rd), Get(dn.floor)) = Get(rd)
          /\ (xml_rd_end(Get(dn.from))
                /\ xml_rd_depth(Get(dn.from)) = Get(dn.floor) + 1)
               => rd = dn.from)

\* a run with a floor above 0 has ended, and a call was made at its end
C18_Witness ==
  /\ DnRunning
  /\ DnEnded
  /\ Get(dn.floor) > 0
  /\ rd = dn.from

\* the elements above node n of the document
ElementAncestors(doc, n) == Len(Chain(doc, doc[n].parent))

\* C19: with the cursor on a node, the depth is the number of element
\* ancestors of the node; whenever the depth is above 0, at the end of the
\* siblings too, the stored parent is the element one level up whose
\* children the cursor runs through, and xml_rd_leave lands on that
\* element with the depth one less.
C19_DepthAndParent ==
  RdOpen =>
    With(Get(rd), LAMBDA xml :
      /\ ~xml_rd_end(xml) =>
           /\ xml.doc[xml.node].type = "element"
           /\ xml_rd_depth(xml) = ElementAncestors(xml.doc, xml.node)
      /\ xml_rd_depth(xml) > 0 =>
           /\ xml.parent # NULL
           /\ xml.doc[xml.parent].type = "element"
           /\ ElementAncestors(xml.doc, xml.parent) = xml_rd_depth(xml) - 1
           /\ ~xml_rd_end(xml) => xml.doc[xml.node].parent = xml.parent
           /\ With(xml_rd_leave(xml), LAMBDA up :
                /\ up.node = xml.parent
                /\ xml_rd_depth(up) = xml_rd_depth(xml) - 1
                /\ xml_rd_node_path(up) = Some(PathOf(xml, xml.parent))))

\* the cursor has come to the end of the siblings two levels down or deeper
C19_Witness ==
  /\ RdOpen
  /\ xml_rd_end(Get(rd))
  /\ xml_rd_depth(Get(rd)) >= 2
  /\ Get(rd).doc[Get(rd).parent].children # NULL

\* C20: the operations without effect leave the whole reader as it is:
\* xml_rd_enter and xml_rd_next at the end of the siblings and
\* xml_rd_leave at depth 0 change neither the depth, the parent, the
\* current node, the name, the path nor the path-length stack; on an
\* element, with children or without, xml_rd_enter adds exactly one to
\* the depth.
C20_NoEffectOperations ==
  RdOpen =>
    With(Get(rd), LAMBDA xml :
      /\ xml_rd_end(xml) =>
           /\ xml_rd_enter(xml) = xml
           /\ xml_rd_next(xml) = xml
      /\ xml_rd_depth(xml) = 0 => xml_rd_leave(xml) = xml
      /\ ~xml_rd_end(xml) =>
           xml_rd_depth(xml_rd_enter(xml)) = xml_rd_depth(xml) + 1)

\* xml_rd_enter on an element without children has brought the cursor to
\* the end of the siblings one level down
C20_Witness ==
  /\ RdOpen
  /\ xml_rd_end(Get(rd))
  /\ xml_rd_depth(Get(rd)) >= 2
  /\ Get(rd).doc[Get(rd).parent].children = NULL

=============================================================================
